---- MODULE Spec2Model ----
(***************************************************************************)
(* Model of leaf/__init__.py: the Init orchestrator of the Leaf framework. *)
(*                                                                         *)
(* State: the module registries (AttrDict namespaces) that Init objects    *)
(* write into, the objects the steps create (event buses with their        *)
(* "leaf.exit" event, Flask servers, error messengers, plugin managers,    *)
(* pools, logging handles), each Init object's private kernel latch, and   *)
(* the interpreter's atexit callback list.  Process termination runs the   *)
(* atexit callbacks, each of which notifies the exit event it looks up.    *)
(***************************************************************************)
EXTENDS Naturals, Sequences, FiniteSets

\* ---------------------------------------------------------------- bounds
NumObjs == 2        \* Init objects constructed by the program
MaxCalls == 4       \* initialization calls made before the process exits

Objs == 1..NumObjs
Regs == 1..NumObjs  \* registry 1 is the package-level default `modules`

ExitName == "leaf.exit"
EventErrors == {"EventNotFound", "InvalidEventName", "InvalidRootName", "ReachedMaxReg"}
PluginErrors == {"PluginImportError", "PluginNotFound", "PluginInitError", "PluginRuntimeError"}

VARIABLES
    objReg,       \* Init.__modules of each Init object: the registry it writes
    kinit,        \* Init.__kernel_initialized of each Init object
    slots,        \* per registry: id held by each named slot, 0 = slot absent
    messengers,   \* core.error.Messenger objects: the error kinds registered
    buses,        \* core.events.Manager objects: event name -> ordered hooks
    nSched,       \* number of core.schedule.Manager objects created
    servers,      \* Flask objects: [logger, secret, mounts]
    managers,     \* plugins.Manager objects: [scanned]
    nPool,        \* number of MongoDBPool objects created
    nLog,         \* highest id of a core.error.Logging handle
    integrations, \* payments / weixin namespaces: [kind, attrs, done]: the
                  \* attributes set, and whether the creating call completed
    atexit,       \* callbacks registered with the interpreter's atexit, in order
    pc,           \* "boot" | "exiting" | "exited"
    pending,      \* atexit callbacks still to run (run last-registered first)
    failing,      \* the hooked routines that raise when invoked at exit
    exitLog,      \* notification passes of process exit: [reg, bus, ran]
    last,         \* the last initialization call: [op, obj, reg, result]; obj is
                  \* the caller for kernel (the one step that reads the caller's
                  \* own state) and 0 otherwise
    calls,        \* number of initialization calls made
    kernelRuns,   \* history: per registry, times the kernel body executed
    hookHist      \* history: exit hooks registered, in order: [reg, hook]

vars == <<objReg, kinit, slots, messengers, buses, nSched, servers, managers,
          nPool, nLog, integrations, atexit, pc, pending, failing, exitLog, last, calls,
          kernelRuns, hookHist>>

heap == <<slots, messengers, buses, nSched, servers, managers, nPool, nLog,
          integrations>>

SlotNames == {"error", "events", "schedules", "server", "plugins", "database", "logging",
              "payments", "weixin"}

\* ------------------------------------------------ external collaborators

\* core.algorithm.AttrDict: reading a slot that was never set raises KeyError
Has(r, name) == slots[r][name] # 0

\* core.events.Manager.add on a new Manager: the event is registered, no hooks
AddEvent(name) == [n \in {name} |-> <<>>]

\* core.events.Event.hook: append the callable to the event's hook sequence
Hook(bs, b, h) == [bs EXCEPT ![b][ExitName] = Append(@, h)]

\* mutant: the pass stops at the first hook that fails
Notify_AbortOnFailure(hooks, bad) ==
    LET stop == IF \E i \in 1..Len(hooks) : hooks[i] \in bad
                THEN CHOOSE i \in 1..Len(hooks) :
                        hooks[i] \in bad /\ \A j \in 1..(i-1) : hooks[j] \notin bad
                ELSE Len(hooks)
    IN  [i \in 1..stop |-> [hook |-> hooks[i], ok |-> hooks[i] \notin bad]]

\* core.events.Event.notify: every hook is invoked, in registration order; a
\* hook that fails (it is in bad) does not stop the pass
Notify(hooks, bad) ==
    [i \in 1..Len(hooks) |-> [hook |-> hooks[i], ok |-> hooks[i] \notin bad]]

\* ------------------------------------------------------------------ Init

\* Init.__init__ for every object: the registry argument is kept, the latch
\* starts False.  The registries handed to Init either all hold a default
\* logging handle already (handle r in registry r) or none does.

\* the package-level name `modules`: bound once, at import, to the default
\* registry and never rebound
pkgModules == 1

\* core.modules: rebound by every constructor to its registry argument, so
\* after construction it is the registry of the object constructed last
coreModules == objReg[NumObjs]

\* registries are numbered in the order in which the objects first use them
Canonical(f) == f[1] = 1 /\ \A o \in Objs : o > 1 => \E p \in 1..(o-1) : f[o] <= f[p] + 1

\* the state once every Init object has been constructed
Init ==
    /\ objReg \in {f \in [Objs -> Regs] : Canonical(f)}
    /\ kinit = [o \in Objs |-> FALSE]
    /\ \E defaultLog \in BOOLEAN :
          slots = [r \in Regs |-> [n \in SlotNames |->
                      IF n = "logging" /\ defaultLog THEN r ELSE 0]]
    /\ messengers = <<>>
    /\ buses = <<>>
    /\ nSched = 0
    /\ servers = <<>>
    /\ managers = <<>>
    /\ nPool = 0
    /\ nLog = NumObjs
    /\ integrations = <<>>
    /\ atexit = <<>>
    /\ pc = "boot"
    /\ pending = <<>>
    /\ failing = {}
    /\ exitLog = <<>>
    /\ last = [op |-> "init", obj |-> 0, reg |-> 0, result |-> "ok"]
    /\ calls = 0
    /\ kernelRuns = [r \in Regs |-> 0]
    /\ hookHist = <<>>

Called(op, o, r, res) ==
    /\ last' = [op |-> op, obj |-> o, reg |-> r, result |-> res]
    /\ calls' = calls + 1

\* ---------------------------------------------------------------- kernel
\* The body behind the latch: error registry, event bus, scheduler, the
\* event error kinds, the "leaf.exit" event, the atexit callback, the latch.
KernelBody(o, register) ==
    LET r == objReg[o]
    IN  /\ messengers' = Append(messengers, EventErrors)
        /\ buses' = Append(buses, AddEvent(ExitName))
        /\ nSched' = nSched + 1
        /\ slots' = [slots EXCEPT ![r]["error"] = Len(messengers) + 1,
                                  ![r]["events"] = Len(buses) + 1,
                                  ![r]["schedules"] = nSched + 1]
        /\ atexit' = IF register THEN Append(atexit, o) ELSE atexit
        /\ kinit' = [kinit EXCEPT ![o] = TRUE]
        /\ kernelRuns' = [kernelRuns EXCEPT ![r] = @ + 1]
        /\ Called("kernel", o, r, "ok")
        /\ UNCHANGED <<servers, managers, nPool, nLog, integrations>>

\* mutant: the latch is not tested, the body runs on every call
kernel_NoLatch(o) ==
    /\ pc = "boot" /\ calls < MaxCalls
    /\ KernelBody(o, TRUE)
    /\ UNCHANGED <<objReg, pc, pending, failing, exitLog, hookHist>>

\* mutant: the exit callback is not registered with atexit
kernel_NoAtexit(o) ==
    /\ pc = "boot" /\ calls < MaxCalls
    /\ IF kinit[o]
       THEN /\ Called("kernel", o, objReg[o], "noop")
            /\ UNCHANGED <<heap, kinit, atexit, kernelRuns>>
       ELSE KernelBody(o, FALSE)
    /\ UNCHANGED <<objReg, pc, pending, failing, exitLog, hookHist>>

\* mutant: the latch is set before the body and the body is then skipped
kernel_LatchOnly(o) ==
    /\ pc = "boot" /\ calls < MaxCalls
    /\ kinit' = [kinit EXCEPT ![o] = TRUE]
    /\ Called("kernel", o, objReg[o], IF kinit[o] THEN "noop" ELSE "ok")
    /\ UNCHANGED <<heap, atexit, kernelRuns>>
    /\ UNCHANGED <<objReg, pc, pending, failing, exitLog, hookHist>>

kernel(o) ==
    /\ pc = "boot" /\ calls < MaxCalls
    /\ IF kinit[o]
       THEN /\ Called("kernel", o, objReg[o], "noop")
            /\ UNCHANGED <<heap, kinit, atexit, kernelRuns>>
       ELSE KernelBody(o, TRUE)
    /\ UNCHANGED <<objReg, pc, pending, failing, exitLog, hookHist>>

\* ---------------------------------------------------------------- server
\* mutant: the KeyError of a missing logging slot is swallowed and the
\* server is returned with Flask's own logger
server_SwallowsKeyError(r) ==
    /\ pc = "boot" /\ calls < MaxCalls
    /\ slots' = [slots EXCEPT ![r]["server"] = Len(servers) + 1]
    /\ servers' = Append(servers, [logger |-> slots[r]["logging"],
                                   secret |-> TRUE, mounts |-> <<>>])
    /\ Called("server", 0, r, "ok")
    /\ UNCHANGED <<objReg, kinit, messengers, buses, nSched, managers, nPool, nLog, integrations,
                   atexit, pc, pending, failing, exitLog, kernelRuns, hookHist>>

\* A new Flask object replaces the server slot before the logging slot is
\* read, so the slot is written even when the read raises.
server(r) ==
    /\ pc = "boot" /\ calls < MaxCalls
    /\ LET s == Len(servers) + 1
       IN  /\ slots' = [slots EXCEPT ![r]["server"] = s]
           /\ IF ~Has(r, "logging")
              THEN /\ servers' = Append(servers, [logger |-> 0, secret |-> FALSE, mounts |-> <<>>])
                   /\ Called("server", 0, r, "KeyError")
              ELSE /\ servers' = Append(servers, [logger |-> slots[r]["logging"],
                                                  secret |-> TRUE, mounts |-> <<>>])
                   /\ Called("server", 0, r, "ok")
    /\ UNCHANGED <<objReg, kinit, messengers, buses, nSched, managers, nPool, nLog, integrations,
                   atexit, pc, pending, failing, exitLog, kernelRuns, hookHist>>

\* --------------------------------------------------------------- logging
\* mutant: the server's logger is not re-attached to the new handle
logging_NoReattach(r) ==
    /\ pc = "boot" /\ calls < MaxCalls
    /\ nLog' = nLog + 1
    /\ slots' = [slots EXCEPT ![r]["logging"] = nLog + 1]
    /\ Called("logging", 0, r, "ok")
    /\ UNCHANGED <<objReg, kinit, messengers, buses, nSched, servers, managers, nPool, integrations,
                   atexit, pc, pending, failing, exitLog, kernelRuns, hookHist>>

\* mutant: the KeyError of a missing server slot is not caught
logging_NoTry(r) ==
    /\ pc = "boot" /\ calls < MaxCalls
    /\ LET l == nLog + 1
       IN  /\ nLog' = l
           /\ slots' = [slots EXCEPT ![r]["logging"] = l]
           /\ IF Has(r, "server")
              THEN /\ servers' = [servers EXCEPT ![slots[r]["server"]].logger = l]
                   /\ Called("logging", 0, r, "ok")
              ELSE /\ servers' = servers
                   /\ Called("logging", 0, r, "KeyError")
    /\ UNCHANGED <<objReg, kinit, messengers, buses, nSched, managers, nPool, integrations,
                   atexit, pc, pending, failing, exitLog, kernelRuns, hookHist>>

\* A new Logging handle replaces the logging slot; the server's logger is
\* re-attached when a server exists, and the KeyError of a missing server
\* slot is swallowed.
logging(r) ==
    /\ pc = "boot" /\ calls < MaxCalls
    /\ LET l == nLog + 1
       IN  /\ nLog' = l
           /\ slots' = [slots EXCEPT ![r]["logging"] = l]
           /\ IF Has(r, "server")
              THEN servers' = [servers EXCEPT ![slots[r]["server"]].logger = l]
              ELSE servers' = servers
           /\ Called("logging", 0, r, "ok")
    /\ UNCHANGED <<objReg, kinit, messengers, buses, nSched, managers, nPool, integrations,
                   atexit, pc, pending, failing, exitLog, kernelRuns, hookHist>>

\* -------------------------------------------------------------- database
\* mutant: a missing event bus is tolerated the way logging tolerates a
\* missing server, so the call returns the pool without hooking its stop
database_SwallowsKeyError(r) ==
    /\ pc = "boot" /\ calls < MaxCalls
    /\ LET p == nPool + 1
           h == [kind |-> "stop", id |-> p]
       IN  /\ nPool' = p
           /\ slots' = [slots EXCEPT ![r]["database"] = p]
           /\ Called("database", 0, r, "ok")
           /\ IF ~Has(r, "events")
              THEN UNCHANGED <<buses, hookHist>>
              ELSE /\ buses' = Hook(buses, slots[r]["events"], h)
                   /\ hookHist' = Append(hookHist, [reg |-> r, hook |-> h])
    /\ UNCHANGED <<objReg, kinit, messengers, nSched, servers, managers, nLog, integrations,
                   atexit, pc, pending, failing, exitLog, kernelRuns>>

\* The pool is created and stored first; its stop is then hooked onto the
\* exit event of the event bus currently in the registry.
database(r) ==
    /\ pc = "boot" /\ calls < MaxCalls
    /\ LET p == nPool + 1
           h == [kind |-> "stop", id |-> p]
       IN  /\ nPool' = p
           /\ slots' = [slots EXCEPT ![r]["database"] = p]
           /\ IF ~Has(r, "events")
              THEN /\ Called("database", 0, r, "KeyError")
                   /\ UNCHANGED <<buses, hookHist>>
              ELSE /\ buses' = Hook(buses, slots[r]["events"], h)
                   /\ hookHist' = Append(hookHist, [reg |-> r, hook |-> h])
                   /\ Called("database", 0, r, "ok")
    /\ UNCHANGED <<objReg, kinit, messengers, nSched, servers, managers, nLog, integrations,
                   atexit, pc, pending, failing, exitLog, kernelRuns>>

\* --------------------------------------------------------------- plugins
\* Steps in source order: store a new manager, register the plugin error
\* kinds, scan, mount the blueprint on the server, hook stopall.  A missing
\* slot raises KeyError and leaves the effects of the steps before it.
plugins(r) ==
    /\ pc = "boot" /\ calls < MaxCalls
    /\ LET m == Len(managers) + 1
           h == [kind |-> "stopall", id |-> m]
       IN  /\ slots' = [slots EXCEPT ![r]["plugins"] = m]
           /\ IF ~Has(r, "error")
              THEN /\ managers' = Append(managers, [scanned |-> FALSE])
                   /\ Called("plugins", 0, r, "KeyError")
                   /\ UNCHANGED <<messengers, servers, buses, hookHist>>
              ELSE /\ messengers' = [messengers EXCEPT ![slots[r]["error"]] = @ \cup PluginErrors]
                   /\ managers' = Append(managers, [scanned |-> TRUE])
                   /\ IF ~Has(r, "server")
                      THEN /\ Called("plugins", 0, r, "KeyError")
                           /\ UNCHANGED <<servers, buses, hookHist>>
                      ELSE /\ servers' = [servers EXCEPT ![slots[r]["server"]].mounts =
                                                             Append(@, "/plugins")]
                           /\ IF ~Has(r, "events")
                              THEN /\ Called("plugins", 0, r, "KeyError")
                                   /\ UNCHANGED <<buses, hookHist>>
                              ELSE /\ buses' = Hook(buses, slots[r]["events"], h)
                                   /\ hookHist' = Append(hookHist, [reg |-> r, hook |-> h])
                                   /\ Called("plugins", 0, r, "ok")
    /\ UNCHANGED <<objReg, kinit, nSched, nPool, nLog, integrations, atexit, pc, pending,
                   failing, exitLog, kernelRuns>>

\* ----------------------------------------------------------------- wxpay
WxpayAttrs == {"jsapi", "native", "inapp", "signature"}

\* A new payments namespace replaces the payments slot and receives the three
\* payment objects and the signature; the blueprint is then mounted on the
\* server in the registry.
wxpay(r) ==
    /\ pc = "boot" /\ calls < MaxCalls
    /\ slots' = [slots EXCEPT ![r]["payments"] = Len(integrations) + 1]
    /\ integrations' = Append(integrations, [kind |-> "payments", attrs |-> WxpayAttrs,
                                             done |-> Has(r, "server")])
    /\ IF ~Has(r, "server")
       THEN /\ servers' = servers
            /\ Called("wxpay", 0, r, "KeyError")
       ELSE /\ servers' = [servers EXCEPT ![slots[r]["server"]].mounts = Append(@, "/wxpay")]
            /\ Called("wxpay", 0, r, "ok")
    /\ UNCHANGED <<objReg, kinit, messengers, buses, nSched, managers, nPool, nLog,
                   atexit, pc, pending, failing, exitLog, kernelRuns, hookHist>>

\* ---------------------------------------------------------------- weixin
WeixinAttrs == {"encrypt", "message", "event"}

\* mutant: the server is looked up before the namespace is stored
weixin_ServerFirst(r) ==
    /\ pc = "boot" /\ calls < MaxCalls
    /\ IF ~Has(r, "server")
       THEN /\ UNCHANGED <<slots, integrations, servers>>
            /\ Called("weixin", 0, r, "KeyError")
       ELSE /\ slots' = [slots EXCEPT ![r]["weixin"] = Len(integrations) + 1]
            /\ integrations' = Append(integrations,
                                      [kind |-> "weixin", attrs |-> WeixinAttrs \cup {"handler"},
                                       done |-> TRUE])
            /\ servers' = [servers EXCEPT ![slots[r]["server"]].mounts = Append(@, "/weixin")]
            /\ Called("weixin", 0, r, "ok")
    /\ UNCHANGED <<objReg, kinit, messengers, buses, nSched, managers, nPool, nLog,
                   atexit, pc, pending, failing, exitLog, kernelRuns, hookHist>>

\* A new weixin namespace replaces the weixin slot and receives the
\* encryptor and the reply helpers; the blueprint is then mounted on the
\* server in the registry and stored as the namespace's handler.
weixin(r) ==
    /\ pc = "boot" /\ calls < MaxCalls
    /\ slots' = [slots EXCEPT ![r]["weixin"] = Len(integrations) + 1]
    /\ IF ~Has(r, "server")
       THEN /\ integrations' = Append(integrations, [kind |-> "weixin", attrs |-> WeixinAttrs,
                                                    done |-> FALSE])
            /\ servers' = servers
            /\ Called("weixin", 0, r, "KeyError")
       ELSE /\ integrations' = Append(integrations,
                                      [kind |-> "weixin", attrs |-> WeixinAttrs \cup {"handler"},
                                       done |-> TRUE])
            /\ servers' = [servers EXCEPT ![slots[r]["server"]].mounts = Append(@, "/weixin")]
            /\ Called("weixin", 0, r, "ok")
    /\ UNCHANGED <<objReg, kinit, messengers, buses, nSched, managers, nPool, nLog,
                   atexit, pc, pending, failing, exitLog, kernelRuns, hookHist>>

\* ---------------------------------------------------------- process exit
\* Normal termination: the interpreter runs the registered atexit callbacks,
\* last registered first; an exception in one callback does not stop the
\* rest.  Which of the hooked stop routines raise is the environment's choice.
ProcessExit ==
    /\ pc = "boot"
    /\ pc' = IF atexit = <<>> THEN "exited" ELSE "exiting"
    /\ pending' = atexit
    /\ failing' \in SUBSET {hookHist[i].hook : i \in DOMAIN hookHist}
    /\ UNCHANGED <<objReg, kinit, heap, atexit, exitLog, last, calls, kernelRuns, hookHist>>

\* The callback registered by kernel: look up the event bus now in the
\* registry of its Init object, then its "leaf.exit" event, and notify it.
ExitCallback ==
    /\ pc = "exiting" /\ pending # <<>>
    /\ LET o == pending[Len(pending)]
           r == objReg[o]
           b == slots[r]["events"]
       IN  exitLog' = Append(exitLog, [reg |-> r, bus |-> b,
                                       ran |-> Notify(buses[b][ExitName], failing)])
    /\ pending' = SubSeq(pending, 1, Len(pending) - 1)
    /\ pc' = IF Len(pending) = 1 THEN "exited" ELSE "exiting"
    /\ UNCHANGED <<objReg, kinit, heap, atexit, failing, last, calls, kernelRuns, hookHist>>

Next ==
    \/ \E o \in Objs : kernel(o)
    \/ \E o \in Objs : server(objReg[o])
    \/ \E o \in Objs : logging(objReg[o])
    \/ \E o \in Objs : database(objReg[o])
    \/ \E o \in Objs : plugins(objReg[o])
    \/ ProcessExit
    \/ ExitCallback

Spec == Init /\ [][Next]_vars

\* The boot sequence with the two integrations, up to the point of exit.
NextBoot ==
    \/ \E o \in Objs : kernel(o)
    \/ \E o \in Objs : server(objReg[o])
    \/ \E o \in Objs : logging(objReg[o])
    \/ \E o \in Objs : database(objReg[o])
    \/ \E o \in Objs : plugins(objReg[o])
    \/ \E o \in Objs : wxpay(objReg[o])
    \/ \E o \in Objs : weixin(objReg[o])

SpecBoot == Init /\ [][NextBoot]_vars

TypeOK ==
    /\ pc \in {"boot", "exiting", "exited"}
    /\ calls \in 0..MaxCalls
    /\ \A r \in Regs : \A n \in SlotNames : slots[r][n] \in Nat

\* ------------------------------------------------------ derived notions

\* the step is a kernel() call made on Init object o
IsKernelCall(o) == calls' = calls + 1 /\ last'.op = "kernel" /\ last'.obj = o

\* the step is a call of operation op made on an Init object of registry r
IsCall(op, r) == calls' = calls + 1 /\ last'.op = op /\ last'.reg = r

\* number of atexit callbacks registered by object o
AtexitOf(o) == Cardinality({i \in DOMAIN atexit : atexit[i] = o})

\* number of times the exit event of bus b was notified during process exit
Notified(b) == Cardinality({i \in DOMAIN exitLog : exitLog[i].bus = b})

\* number of times hook h was invoked during process exit
Invocations(h) ==
    Cardinality({ij \in (DOMAIN exitLog) \X (DOMAIN hookHist) :
                    /\ ij[2] <= Len(exitLog[ij[1]].ran)
                    /\ exitLog[ij[1]].ran[ij[2]].hook = h})

\* hooks registered through registry r, in registration order
HooksOf(r) ==
    LET sel == SelectSeq(hookHist, LAMBDA e : e.reg = r)
    IN  [i \in 1..Len(sel) |-> sel[i].hook]

\* hooks invoked at exit for registry r, in invocation order
RECURSIVE RanHooks(_, _)
RanHooks(log, r) ==
    IF log = <<>> THEN <<>>
    ELSE (IF Head(log).reg = r
          THEN [j \in 1..Len(Head(log).ran) |-> Head(log).ran[j].hook]
          ELSE <<>>) \o RanHooks(Tail(log), r)

\* ---------------------------------------------------------------- claims

\* C1: a kernel() call on an Init object whose latch is already set returns
\* without changing anything: the registry slots, the event bus with its
\* exit event and hooks, the scheduler and the atexit list stay as they
\* were, and the object has exactly one exit callback registered.
C1_KernelIdempotent ==
    [][\A o \in Objs : (kinit[o] /\ IsKernelCall(o)) =>
            /\ last'.result = "noop"
            /\ UNCHANGED <<heap, kinit, atexit, kernelRuns, hookHist>>
            /\ AtexitOf(o) = 1]_vars

C1_Witness ==
    /\ last.op = "kernel" /\ last.result = "noop"
    /\ buses[slots[last.reg]["events"]][ExitName] # <<>>

\* C2: for each registry the kernel body executes at most once, however
\* many Init objects sharing that registry call kernel().
C2_KernelBodyOncePerRegistry == \A r \in Regs : kernelRuns[r] <= 1

\* C3: once the process has exited, the "leaf.exit" event of every registry
\* on which kernel() succeeded has been notified exactly once.
C3_ExitNotifiedOnce ==
    pc = "exited" =>
        \A r \in Regs : kernelRuns[r] >= 1 => Notified(slots[r]["events"]) = 1

\* C4: once the process has exited, the stop routine of every pool created
\* by a successful database() call has been invoked exactly once.
C4_PoolStoppedOnce ==
    pc = "exited" =>
        \A i \in DOMAIN hookHist :
            hookHist[i].hook.kind = "stop" => Invocations(hookHist[i].hook) = 1

\* C5: once the process has exited, the stopall of every plugin manager
\* created by a successful plugins() call has been invoked exactly once.
C5_StopallOnce ==
    pc = "exited" =>
        \A i \in DOMAIN hookHist :
            hookHist[i].hook.kind = "stopall" => Invocations(hookHist[i].hook) = 1

\* C6: when kernel() ran once on a registry and plugins() and database()
\* then hooked onto its exit event, process exit runs exactly the hooked
\* routines, each once, in the order in which they were hooked.
C6_HooksRunOnceInOrder ==
    pc = "exited" =>
        \A r \in Regs : kernelRuns[r] = 1 => RanHooks(exitLog, r) = HooksOf(r)

C6_Witness ==
    /\ pc = "exited"
    /\ kernelRuns[1] = 1
    /\ HooksOf(1) = <<[kind |-> "stopall", id |-> 1], [kind |-> "stop", id |-> 1]>>
    /\ RanHooks(exitLog, 1) = HooksOf(1)

\* C7: database() or plugins() called on a registry on which kernel() has
\* not completed raises to the caller and registers no exit hook; and a
\* hook is only ever appended to the exit event of the bus that a kernel()
\* call stored in the registry.
C7_HookNeedsKernel ==
    [][/\ \A r \in Regs :
            ((IsCall("database", r) \/ IsCall("plugins", r)) /\ kernelRuns[r] = 0) =>
                /\ last'.result = "KeyError"
                /\ buses' = buses
                /\ hookHist' = hookHist
       /\ hookHist' # hookHist =>
            LET e == hookHist'[Len(hookHist')]
                b == slots[e.reg]["events"]
            IN  /\ kernelRuns[e.reg] >= 1
                /\ b \in 1..Len(buses)
                /\ buses' = [buses EXCEPT ![b][ExitName] = Append(@, e.hook)]]_vars

C7_Witness ==
    /\ last.op \in {"database", "plugins"}
    /\ last.result = "KeyError"
    /\ kernelRuns[last.reg] = 0
    /\ hookHist = <<>>

\* C8: logging(conf) on a registry that holds no server completes without
\* raising, stores the new logging handle, and creates no server slot.
C8_LoggingWithoutServer ==
    [][\A r \in Regs : (IsCall("logging", r) /\ ~Has(r, "server")) =>
            /\ last'.result = "ok"
            /\ nLog' = nLog + 1
            /\ slots' = [slots EXCEPT ![r]["logging"] = nLog + 1]
            /\ servers' = servers]_vars

C8_Witness ==
    /\ last.op = "logging" /\ last.result = "ok"
    /\ ~Has(last.reg, "server")
    /\ slots[last.reg]["logging"] = nLog

\* C9: in every notification pass of process exit all hooks of the exit
\* event are invoked, also the ones hooked after a hook that failed.
C9_FailedHookDoesNotStopPass ==
    \A i \in DOMAIN exitLog :
        LET hooks == buses[exitLog[i].bus][ExitName]
            ran == exitLog[i].ran
        IN  /\ Len(ran) = Len(hooks)
            /\ \A j \in DOMAIN ran : ran[j].hook = hooks[j]

C9_Witness ==
    \E i \in DOMAIN exitLog :
        LET ran == exitLog[i].ran
        IN  /\ Len(ran) = 2
            /\ ~ran[1].ok
            /\ {ran[1].hook.kind, ran[2].hook.kind} = {"stopall", "stop"}

\* C10: whenever a registry holds both a server and a logging handle, the
\* server's logger is the logger of the handle now in the registry.
C10_ServerLoggerCurrent ==
    \A r \in Regs :
        (Has(r, "server") /\ Has(r, "logging")) =>
            servers[slots[r]["server"]].logger = slots[r]["logging"]

C10_Witness ==
    /\ last.op = "logging"
    /\ Has(last.reg, "server")
    /\ servers[slots[last.reg]["server"]].secret
    /\ servers[slots[last.reg]["server"]].logger = nLog

\* C12: server() raises KeyError to the caller exactly when the registry
\* holds no logging handle; when a handle exists it succeeds, stores a new
\* server with that handle's logger and a secret, whether or not kernel()
\* or logging(conf) has been called.
C12_ServerNeedsLoggingOnly ==
    [][\A r \in Regs : IsCall("server", r) =>
            /\ Has(r, "server")'
            /\ IF Has(r, "logging")
               THEN /\ last'.result = "ok"
                    /\ servers'[slots'[r]["server"]].logger = slots[r]["logging"]
                    /\ servers'[slots'[r]["server"]].secret
               ELSE last'.result = "KeyError"]_vars

C12_Witness ==
    /\ last.op = "server" /\ last.result = "KeyError"
    /\ ~Has(last.reg, "logging")

\* C13: once the constructors have returned, every Init object has run the
\* kernel stage: its latch is set and its registry holds the event bus with
\* the exit event.
C13_ConstructorRunsKernel ==
    \A o \in Objs :
        /\ kinit[o]
        /\ Has(objReg[o], "events")
        /\ ExitName \in DOMAIN buses[slots[objReg[o]]["events"]]

\* C14: the registry every Init object writes into is the object that the
\* package-level name `modules` and core.modules both denote.
C14_SingleSharedRegistry ==
    \A o \in Objs : objReg[o] = pkgModules /\ objReg[o] = coreModules

\* C15: an Init object's latch being set implies that its registry holds an
\* error messenger, a scheduler and an event bus with "leaf.exit"
\* registered; and the latch is set only by a kernel() call on that object
\* that completed the whole body, the atexit registration included.
C15_LatchImpliesKernelState ==
    [][\A o \in Objs :
        /\ kinit'[o] =>
              LET r == objReg[o]
              IN  /\ Has(r, "error")' /\ slots'[r]["error"] \in 1..Len(messengers')
                  /\ Has(r, "schedules")'
                  /\ Has(r, "events")'
                  /\ ExitName \in DOMAIN buses'[slots'[r]["events"]]
        /\ (~kinit[o] /\ kinit'[o]) =>
              /\ IsKernelCall(o) /\ last'.result = "ok"
              /\ EventErrors \subseteq messengers'[slots'[objReg[o]]["error"]]
              /\ buses'[slots'[objReg[o]]["events"]] = AddEvent(ExitName)
              /\ atexit' = Append(atexit, o)]_vars

C15_Witness ==
    /\ last.op = "kernel" /\ last.result = "ok"
    /\ kinit[last.obj]
    /\ buses[slots[last.reg]["events"]] = AddEvent(ExitName)

\* C16: every plugin manager whose scan has run has its stopall hooked onto
\* the exit event.
C16_ScannedManagerHooked ==
    \A m \in DOMAIN managers :
        managers[m].scanned =>
            \E i \in DOMAIN hookHist : hookHist[i].hook = [kind |-> "stopall", id |-> m]

\* the slot an initialization step assigns before it reads any other slot
OwnSlot(op) ==
    CASE op = "server" -> "server"
      [] op = "database" -> "database"
      [] op = "plugins" -> "plugins"
      [] op = "weixin" -> "weixin"
      [] op = "wxpay" -> "payments"

FailableOps == {"server", "database", "plugins", "weixin", "wxpay"}

\* number of times the route group with this prefix is mounted on server s
Mounted(s, prefix) ==
    Cardinality({i \in DOMAIN servers[s].mounts : servers[s].mounts[i] = prefix})

\* the integrations that a completed call has initialized in registry r, by
\* the prefix of their route group
InitializedIn(r) ==
    {"/plugins" : i \in {j \in DOMAIN hookHist :
                            hookHist[j].reg = r /\ hookHist[j].hook.kind = "stopall"}}
    \cup {"/weixin" : x \in {y \in {slots[r]["weixin"]} : y # 0 /\ integrations[y].done}}
    \cup {"/wxpay" : x \in {y \in {slots[r]["payments"]} : y # 0 /\ integrations[y].done}}

\* C11: the server now in the registry carries, exactly once, the route
\* group of every integration that has been initialized.
C11_IntegrationsMountedOnce ==
    \A r \in Regs : \A prefix \in InitializedIn(r) :
        Has(r, "server") /\ Mounted(slots[r]["server"], prefix) = 1

\* C17 as claimed: a step that raises KeyError for a missing prerequisite
\* slot has created or replaced no registry slot.
C17_FailedStepChangesNothing ==
    [][\A r \in Regs : \A op \in FailableOps :
            (IsCall(op, r) /\ last'.result = "KeyError") => slots' = slots]_vars

\* C17 amended: a step that raises KeyError for a missing prerequisite slot
\* has replaced the one slot it assigns first with a newly created object;
\* every other slot of every registry is unchanged and no exit hook has
\* been registered.
C17_FailedStepChangesOwnSlotOnly ==
    [][\A r \in Regs : \A op \in FailableOps :
            (IsCall(op, r) /\ last'.result = "KeyError") =>
                /\ slots'[r][OwnSlot(op)] # 0
                /\ slots'[r][OwnSlot(op)] # slots[r][OwnSlot(op)]
                /\ \A q \in Regs : slots'[q][OwnSlot(op)] = slots'[r][OwnSlot(op)] => q = r
                /\ slots' = [slots EXCEPT ![r][OwnSlot(op)] = slots'[r][OwnSlot(op)]]
                /\ buses' = buses
                /\ hookHist' = hookHist]_vars

C17_Witness ==
    /\ last.op \in {"weixin", "wxpay"} /\ last.result = "KeyError"
    /\ ~Has(last.reg, "server")
    /\ Has(last.reg, OwnSlot(last.op))
    /\ Has(last.reg, "events")
====
